---- MODULE Spec2Model ----
(***************************************************************************)
(* Model of the jobly entity access layer: the Job and Company models      *)
(* (src/models/job.js), the partial-update builder sqlForPartialUpdate     *)
(* (src/unnamed/part_000) and the relational store they query.             *)
(***************************************************************************)
EXTENDS Integers, Sequences, FiniteSets, TLC

VARIABLES
  companies,  \* the companies table: a sequence of rows
  jobs,       \* the jobs table: a sequence of rows
  jobsIdSeq,  \* the last value handed out by the serial of jobs.id
  pc,         \* per request: "idle", or "insert" between the two queries of Company.create
  req,        \* per request: the argument of the Company.create it is running
  call,       \* the call that took the last step: [op, key, data]
  out,        \* what that call did: [status, msg, value]
  sent        \* the statements that call has passed to db.query, in order

vars == <<companies, jobs, jobsIdSeq, pc, req, call, out, sent>>

(***************************************************************************)
(* Bounds of the model.                                                    *)
(***************************************************************************)
NumRequests == 2
MaxJobId == 1
MaxDataKeys == 2

Requests == 1..NumRequests

(***************************************************************************)
(* JavaScript values: a type tag and a payload.  A number is the fraction  *)
(* <<numerator, denominator>>.                                             *)
(***************************************************************************)
Str(s) == [t |-> "string", v |-> s]
Num(n) == [t |-> "number", v |-> <<n, 1>>]
Frac(n, d) == [t |-> "number", v |-> <<n, d>>]
Bool(b) == [t |-> "boolean", v |-> b]
Null == [t |-> "null", v |-> "null"]
Undefined == [t |-> "undefined", v |-> "undefined"]
Fn(name) == [t |-> "function", v |-> name]
EmptyArray == [t |-> "object", v |-> "[]"]

\* typeof x === "string"
IsString(x) == x.t = "string"

\* Number.isInteger(x)
NumberIsInteger(x) == x.t = "number" /\ x.v[1] % x.v[2] = 0

\* ToNumber(x) = 0 for the strings of the model: "" and "0"
StringIsZero(s) == s \in {"", "0"}

\* x == false, the abstract equality comparison: false is converted to the
\* number 0, and x to a number (an empty array to "" first)
LooseEqFalse(x) ==
  CASE x.t = "boolean" -> x.v = FALSE
    [] x.t = "number" -> x.v[1] = 0
    [] x.t = "string" -> StringIsZero(x.v)
    [] x.t = "object" -> x.v = "[]"
    [] OTHER -> FALSE

\* ToBoolean(x)
Truthy(x) ==
  CASE x.t = "boolean" -> x.v
    [] x.t = "number" -> x.v[1] # 0
    [] x.t = "string" -> x.v # ""
    [] x.t \in {"null", "undefined"} -> FALSE
    [] OTHER -> TRUE

\* `${x}` for the values interpolated as column names
TemplateString(x) ==
  CASE x.t = "string" -> x.v
    [] x.t = "function" -> "function " \o x.v \o "() { [native code] }"
    [] OTHER -> x.t

(***************************************************************************)
(* A JavaScript object is the sequence of its own properties in insertion  *)
(* order, each [k |-> key, v |-> value], with distinct keys.               *)
(***************************************************************************)
ObjectKeys(o) == [i \in 1..Len(o) |-> o[i].k]
ObjectValues(o) == [i \in 1..Len(o) |-> o[i].v]
Includes(s, x) == \E i \in 1..Len(s) : s[i] = x
HasOwn(o, key) == Includes(ObjectKeys(o), key)
OwnValue(o, key) == o[CHOOSE i \in 1..Len(o) : o[i].k = key].v

\* the properties every object literal inherits from Object.prototype
\* (the ones the model's inputs can name)
ObjectPrototype == {"constructor", "toString"}

\* o[key]: an own property, else an inherited one, else undefined
GetProp(o, key) ==
  IF HasOwn(o, key) THEN OwnValue(o, key)
  ELSE IF key \in ObjectPrototype
       THEN Fn(IF key = "constructor" THEN "Object" ELSE key)
       ELSE Undefined

Ok(value) == [status |-> "ok", msg |-> "", value |-> value]
Threw(class, msg) == [status |-> class, msg |-> msg, value |-> Null]

(***************************************************************************)
(* sqlForPartialUpdate.  A fragment "<col>"=$<idx> is [col, idx].          *)
(***************************************************************************)
Assign(col, idx) == [col |-> col, idx |-> idx]

Cols(keys, jsToSql) ==
  [i \in 1..Len(keys) |->
     LET alias == GetProp(jsToSql, keys[i])
     IN Assign(TemplateString(IF Truthy(alias) THEN alias ELSE Str(keys[i])), i)]

NoEmptyCheck(keys) == FALSE

NoData(keys) == Len(keys) = 0

sqlForPartialUpdate(dataToUpdate, jsToSql) ==
  LET keys == ObjectKeys(dataToUpdate)
  IN IF NoData(keys)
     THEN Threw("BadRequestError", "No data")
     ELSE Ok([setCols |-> Cols(keys, jsToSql), values |-> ObjectValues(dataToUpdate)])

(***************************************************************************)
(* The schema of the store.                                                *)
(***************************************************************************)
Columns(table) ==
  IF table = "jobs"
  THEN {"id", "title", "salary", "equity", "company_handle"}
  ELSE {"handle", "name", "description", "num_employees", "logo_url"}

ColType(col) ==
  CASE col \in {"id", "salary", "num_employees"} -> "integer"
    [] col = "equity" -> "numeric"
    [] OTHER -> "text"

NotNull(col) == col \in {"id", "title", "company_handle", "handle", "name", "description"}

PrimaryKey(table) == IF table = "jobs" THEN "id" ELSE "handle"

\* the text of a number with at most one decimal digit
NumberText(x) ==
  IF x.v[1] % x.v[2] = 0
  THEN ToString(x.v[1] \div x.v[2])
  ELSE ToString(x.v[1] \div x.v[2]) \o "." \o ToString(((x.v[1] * 10) \div x.v[2]) % 10)

\* A parameter as the column's type takes it: [ok, v].  The driver sends null
\* and undefined as NULL and everything else as text.
Coerce(col, x) ==
  LET type == ColType(col)
  IN CASE x.t \in {"null", "undefined"} -> [ok |-> ~NotNull(col), v |-> Null]
       [] type = "text" /\ x.t = "string" -> [ok |-> TRUE, v |-> x]
       [] type = "text" /\ x.t = "number" -> [ok |-> TRUE, v |-> Str(NumberText(x))]
       [] type = "integer" /\ x.t = "number" -> [ok |-> NumberIsInteger(x), v |-> x]
       [] type = "numeric" /\ x.t = "number" -> [ok |-> TRUE, v |-> x]
       [] type \in {"integer", "numeric"} /\ x.t = "string" -> [ok |-> x.v = "0", v |-> Num(0)]
       [] OTHER -> [ok |-> FALSE, v |-> Null]

\* a value as the driver returns it: NUMERIC comes back as a string
FromSql(col, x) ==
  IF ColType(col) = "numeric" /\ x.t = "number" THEN Str(NumberText(x)) ELSE x

\* a value inside json_build_object: NUMERIC stays a JSON number
ToJson(col, x) == x

(***************************************************************************)
(* Statements.  A predicate <col> <op> $<idx> is [col, op, idx, lit]; idx  *)
(* is 0 when the right-hand side is the literal lit.                       *)
(***************************************************************************)
Pred(col, op, idx) == [col |-> col, op |-> op, idx |-> idx, lit |-> Null]
PredLit(col, op, lit) == [col |-> col, op |-> op, idx |-> 0, lit |-> lit]

Stmt(verb, table, more, set, where, params) ==
  [verb |-> verb, table |-> table, more |-> more, set |-> set, where |-> where,
   params |-> params]

\* the placeholders a statement mentions
Placeholders(stmt) ==
  {stmt.set[i].idx : i \in 1..Len(stmt.set)}
    \cup {stmt.where[i].idx : i \in {j \in 1..Len(stmt.where) : stmt.where[j].idx # 0}}

\* the bind succeeds when the parameters are exactly $1..$n
BindOk(stmt) == Placeholders(stmt) = 1..Len(stmt.params)

UpperCase == "ABCDEFGHIJKLMNOPQRSTUVWXYZ"
LowerCase == "abcdefghijklmnopqrstuvwxyz"

NoFold(ch) == ch

\* ILIKE compares the characters without regard to case
Fold(ch) ==
  IF \E i \in 1..Len(UpperCase) : SubSeq(UpperCase, i, i) = ch
  THEN LET i == CHOOSE j \in 1..Len(UpperCase) : SubSeq(UpperCase, j, j) = ch
       IN SubSeq(LowerCase, i, i)
  ELSE ch

RECURSIVE ILike(_, _)
ILike(s, p) ==
  IF Len(p) = 0 THEN Len(s) = 0
  ELSE IF SubSeq(p, 1, 1) = "%"
       THEN ILike(s, SubSeq(p, 2, Len(p)))
              \/ (Len(s) > 0 /\ ILike(SubSeq(s, 2, Len(s)), p))
       ELSE /\ Len(s) > 0
            /\ SubSeq(p, 1, 1) = "_" \/ Fold(SubSeq(s, 1, 1)) = Fold(SubSeq(p, 1, 1))
            /\ ILike(SubSeq(s, 2, Len(s)), SubSeq(p, 2, Len(p)))

\* a comparison of two SQL values; a comparison with NULL is not true
Compare(op, a, b) ==
  IF a.t = "null" \/ b.t = "null" THEN FALSE
  ELSE CASE op = "=" -> a = b
         [] op = ">=" -> a.v[1] * b.v[2] >= b.v[1] * a.v[2]
         [] op = "<=" -> a.v[1] * b.v[2] <= b.v[1] * a.v[2]
         [] op = ">" -> a.v[1] * b.v[2] > b.v[1] * a.v[2]
         [] op = "ILIKE" -> ILike(a.v, b.v)

PredArg(p, params) == IF p.idx = 0 THEN p.lit ELSE Coerce(p.col, params[p.idx]).v

Matches(row, where, params) ==
  \A i \in 1..Len(where) : Compare(where[i].op, row[where[i].col], PredArg(where[i], params))

\* the statement names only columns of its table, and every parameter is
\* accepted by the type of the column it is compared with or assigned to
WellTyped(stmt) ==
  /\ \A i \in 1..Len(stmt.set) :
       /\ stmt.set[i].col \in Columns(stmt.table)
       /\ Coerce(stmt.set[i].col, stmt.params[stmt.set[i].idx]).ok
  /\ \A i \in 1..Len(stmt.where) :
       /\ stmt.where[i].col \in Columns(stmt.table)
       /\ stmt.where[i].idx # 0 =>
            \/ stmt.params[stmt.where[i].idx].t \in {"null", "undefined"}
            \/ Coerce(stmt.where[i].col, stmt.params[stmt.where[i].idx]).ok

NoUniqueViolation(rows, key) == FALSE

\* two rows of the table hold the same value in the primary key column
UniqueViolation(rows, key) ==
  \E i, j \in 1..Len(rows) : i # j /\ rows[i][key] = rows[j][key]

\* a job names a company that is not stored
ForeignKeyViolation(db) ==
  \E i \in 1..Len(db.jobs) :
    \A j \in 1..Len(db.companies) : db.companies[j].handle # db.jobs[i].company_handle

StoreError(db) == [status |-> "StoreError", rows |-> <<>>, db |-> db]

Result(rows, db) == [status |-> "ok", rows |-> rows, db |-> db]

\* the rows of a table a WHERE clause selects, in table order
Selected(rows, stmt) ==
  SelectSeq(rows, LAMBDA r : Matches(r, stmt.where, stmt.params))

\* ON DELETE CASCADE of jobs.company_handle: the jobs of a deleted company go
Cascade(db) ==
  [db EXCEPT !.jobs =
     SelectSeq(@, LAMBDA j :
       \E i \in 1..Len(db.companies) : db.companies[i].handle = j.company_handle)]

\* the value an INSERT gives a column: its parameter, or the column's default
Inserted(db, stmt, col) ==
  IF \E i \in 1..Len(stmt.set) : stmt.set[i].col = col
  THEN LET i == CHOOSE j \in 1..Len(stmt.set) : stmt.set[j].col = col
       IN Coerce(col, stmt.params[stmt.set[i].idx]).v
  ELSE IF stmt.table = "jobs" /\ col = "id" THEN Num(db.jobsIdSeq + 1) ELSE Null

ExecInsert(db, stmt) ==
  LET row == [c \in Columns(stmt.table) |-> Inserted(db, stmt, c)]
      drawn == [db EXCEPT !.jobsIdSeq = IF stmt.table = "jobs" THEN @ + 1 ELSE @]
      after == [drawn EXCEPT ![stmt.table] = Append(@, row)]
  IN IF UniqueViolation(after[stmt.table], PrimaryKey(stmt.table))
          \/ ForeignKeyViolation(after)
     THEN StoreError(drawn)
     ELSE Result(<<row>>, after)

\* the row an UPDATE leaves: each assignment of the SET list applied in order
Updated(row, stmt) ==
  [c \in DOMAIN row |->
     IF \E i \in 1..Len(stmt.set) : stmt.set[i].col = c
     THEN LET i == CHOOSE j \in 1..Len(stmt.set) : stmt.set[j].col = c
          IN Coerce(c, stmt.params[stmt.set[i].idx]).v
     ELSE row[c]]

ExecUpdate(db, stmt) ==
  LET rows == db[stmt.table]
      hit(r) == Matches(r, stmt.where, stmt.params)
      after == [db EXCEPT ![stmt.table] =
                  [i \in 1..Len(rows) |->
                     IF hit(rows[i]) THEN Updated(rows[i], stmt) ELSE rows[i]]]
  IN IF \/ Len(stmt.set) = 0
        \/ \E i, j \in 1..Len(stmt.set) : i # j /\ stmt.set[i].col = stmt.set[j].col
        \/ UniqueViolation(after[stmt.table], PrimaryKey(stmt.table))
        \/ ForeignKeyViolation(after)
     THEN StoreError(db)
     ELSE LET hits == Selected(rows, stmt)
          IN Result([i \in 1..Len(hits) |-> Updated(hits[i], stmt)], after)

ExecDelete(db, stmt) ==
  LET rows == db[stmt.table]
      after == [db EXCEPT ![stmt.table] =
                  SelectSeq(rows, LAMBDA r : ~Matches(r, stmt.where, stmt.params))]
  IN Result(Selected(rows, stmt), Cascade(after))

\* the rows of the FROM table a SELECT yields; an inner join with companies
\* keeps a job only when its company is stored
ExecSelect(db, stmt) ==
  LET rows == Selected(db[stmt.table], stmt)
  IN Result(IF stmt.more = "JOIN companies"
            THEN SelectSeq(rows, LAMBDA j :
                   \E i \in 1..Len(db.companies) :
                     db.companies[i].handle = j.company_handle)
            ELSE rows,
            db)

\* db.query(sql, params)
Query(db, stmt) ==
  IF ~BindOk(stmt) THEN StoreError(db)
  ELSE IF ~WellTyped(stmt) THEN StoreError(db)
  ELSE CASE stmt.verb = "INSERT" -> ExecInsert(db, stmt)
         [] stmt.verb = "UPDATE" -> ExecUpdate(db, stmt)
         [] stmt.verb = "DELETE" -> ExecDelete(db, stmt)
         [] stmt.verb = "SELECT" -> ExecSelect(db, stmt)

(***************************************************************************)
(* The models.  A method takes the store and its arguments and yields what *)
(* it returned or threw, the statements it sent, and the store it leaves.  *)
(***************************************************************************)
Done(o, stmts, db) == [out |-> o, sent |-> stmts, db |-> db]

RethrownAsBadRequest == Threw("BadRequestError", "")

\* an error of db.query, which no method catches
Rethrown == Threw("StoreError", "")

\* `${x}` of a key
KeyText(x) == IF x.t = "number" THEN NumberText(x) ELSE TemplateString(x)

\* RETURNING id, title, salary, equity, company_handle AS "companyHandle"
JobRow(r) ==
  [id |-> r.id, title |-> r.title, salary |-> r.salary,
   equity |-> FromSql("equity", r.equity), companyHandle |-> r.company_handle]

\* RETURNING handle, name, description, num_employees AS "numEmployees",
\* logo_url AS "logoUrl"
CompanyRow(r) ==
  [handle |-> r.handle, name |-> r.name, description |-> r.description,
   numEmployees |-> r.num_employees, logoUrl |-> r.logo_url]

\* the rows as the SELECT or RETURNING list shapes them
JobRows(rows) == [i \in 1..Len(rows) |-> JobRow(rows[i])]
CompanyRows(rows) == [i \in 1..Len(rows) |-> CompanyRow(rows[i])]

\* result.rows[0]
First(rows) == IF Len(rows) = 0 THEN Undefined ELSE rows[1]

NeverMissing(row) == FALSE

\* !row
Missing(row) == row = Undefined

JobCreate(db, data) ==
  LET stmt == Stmt("INSERT", "jobs", "",
                   <<Assign("title", 1), Assign("salary", 2), Assign("equity", 3),
                     Assign("company_handle", 4)>>,
                   <<>>,
                   <<GetProp(data, "title"), GetProp(data, "salary"),
                     GetProp(data, "equity"), GetProp(data, "companyHandle")>>)
      result == Query(db, stmt)
  IN IF result.status # "ok" THEN Done(Rethrown, <<stmt>>, result.db)
     ELSE Done(Ok(First(JobRows(result.rows))), <<stmt>>, result.db)

\* json_build_object('handle', c.handle, ...) of the company a job joins
JobCompany(db, j) ==
  LET c == db.companies[CHOOSE i \in 1..Len(db.companies) :
                          db.companies[i].handle = j.company_handle]
  IN [handle |-> c.handle, name |-> c.name, description |-> c.description,
      numEmployees |-> ToJson("num_employees", c.num_employees),
      logoUrl |-> c.logo_url]

JobGet(db, id) ==
  LET stmt == Stmt("SELECT", "jobs", "JOIN companies", <<>>,
                   <<Pred("id", "=", 1)>>, <<id>>)
      jobRes == Query(db, stmt)
  IN IF jobRes.status # "ok" THEN Done(Rethrown, <<stmt>>, jobRes.db)
     ELSE LET job == First([i \in 1..Len(jobRes.rows) |->
                        LET j == jobRes.rows[i]
                        IN [id |-> j.id, title |-> j.title, salary |-> j.salary,
                            equity |-> FromSql("equity", j.equity),
                            company |-> JobCompany(db, j)]])
          IN IF Missing(job)
             THEN Done(Threw("NotFoundError", "No job: " \o KeyText(id)),
                       <<stmt>>, jobRes.db)
             ELSE Done(Ok(job), <<stmt>>, jobRes.db)

JobJsToSql ==
  <<[k |-> "title", v |-> Str("title")], [k |-> "salary", v |-> Str("salary")],
    [k |-> "equity", v |-> Str("equity")]>>

KeyIdxOffByOne(values) == Len(values)

\* the placeholder of the key: values.length + 1
KeyIdx(values) == Len(values) + 1

KeyFirst(values, key) == <<key>> \o values

\* [...values, id]
WithKey(values, key) == Append(values, key)

JobUpdate(db, id, data) ==
  LET built == sqlForPartialUpdate(data, JobJsToSql)
  IN IF built.status # "ok" THEN Done(built, <<>>, db)
     ELSE LET stmt == Stmt("UPDATE", "jobs", "", built.value.setCols,
                           <<Pred("id", "=", KeyIdx(built.value.values))>>,
                           WithKey(built.value.values, id))
              result == Query(db, stmt)
          IN IF result.status # "ok" THEN Done(Rethrown, <<stmt>>, result.db)
             ELSE LET job == First(JobRows(result.rows))
                  IN IF Missing(job)
                     THEN Done(Threw("NotFoundError", "No job: " \o KeyText(id)),
                               <<stmt>>, result.db)
                     ELSE Done(Ok(job), <<stmt>>, result.db)

JobRemoveNoCheck(db, id) ==
  LET stmt == Stmt("DELETE", "jobs", "", <<>>, <<Pred("id", "=", 1)>>, <<id>>)
      result == Query(db, stmt)
  IN IF result.status # "ok" THEN Done(Rethrown, <<stmt>>, result.db)
     ELSE Done(Ok(Undefined), <<stmt>>, result.db)

JobRemove(db, id) ==
  LET stmt == Stmt("DELETE", "jobs", "", <<>>, <<Pred("id", "=", 1)>>, <<id>>)
      result == Query(db, stmt)
  IN IF result.status # "ok" THEN Done(Rethrown, <<stmt>>, result.db)
     ELSE IF Missing(First(result.rows))
     THEN Done(Threw("NotFoundError", "No job: " \o KeyText(id)), <<stmt>>, result.db)
     ELSE Done(Ok(Undefined), <<stmt>>, result.db)

(***************************************************************************)
(* findAll.  The filter clause is built in a record [conds, values,        *)
(* counter, thrown]: filterConditionsArr, values, counter, and the error   *)
(* thrown so far, if any.                                                  *)
(***************************************************************************)
NoFilters == [conds |-> <<>>, values |-> <<>>, counter |-> 1, thrown |-> ""]

\* let x = false; if (Object.keys(filters).includes(key)) x = filters[key]
FilterValue(filters, key) ==
  IF Includes(ObjectKeys(filters), key) THEN GetProp(filters, key) ELSE Bool(FALSE)

PushedSameIndex(b, col, op, param) ==
  [b EXCEPT !.conds = Append(@, Pred(col, op, b.counter)),
            !.values = Append(@, param)]

\* filterConditionsArr.push(`<col> <op> $${counter}`); values.push(param); counter++
Pushed(b, col, op, param) ==
  [b EXCEPT !.conds = Append(@, Pred(col, op, b.counter)),
            !.values = Append(@, param),
            !.counter = @ + 1]

\* else if (x != false) throw new BadRequestError(msg)
ElseThrow(b, x, msg) == IF LooseEqFalse(x) THEN b ELSE [b EXCEPT !.thrown = msg]

\* if (typeof x === "string") { push } else if (x != false) throw
StringFilter(b, x, col, msg) ==
  IF b.thrown # "" THEN b
  ELSE IF IsString(x) THEN Pushed(b, col, "ILIKE", Str("%" \o x.v \o "%"))
  ELSE ElseThrow(b, x, msg)

\* if (Number.isInteger(x)) { push } else if (x != false) throw
IntegerFilter(b, x, col, op, msg) ==
  IF b.thrown # "" THEN b
  ELSE IF NumberIsInteger(x) THEN Pushed(b, col, op, x)
  ELSE ElseThrow(b, x, msg)

\* if (hasEquity === true) { push `equity > 0`; counter++ } else if (x != false) throw
EquityFilter(b, x, msg) ==
  IF b.thrown # "" THEN b
  ELSE IF x = Bool(TRUE)
       THEN [b EXCEPT !.conds = Append(@, PredLit("equity", ">", Num(0))),
                      !.counter = @ + 1]
       ELSE ElseThrow(b, x, msg)

JobFilters(filters) ==
  EquityFilter(
    IntegerFilter(
      StringFilter(NoFilters, FilterValue(filters, "title"), "title",
                   "title must be a string"),
      FilterValue(filters, "minSalary"), "salary", ">=",
      "minSalary must be an integer"),
    FilterValue(filters, "hasEquity"), "hasEquity must be a boolean")

JobFindAll(db, filters) ==
  LET b == JobFilters(filters)
      stmt == Stmt("SELECT", "jobs", "", <<>>, b.conds, b.values)
      jobsRes == Query(db, stmt)
  IN IF b.thrown # "" THEN Done(Threw("BadRequestError", b.thrown), <<>>, db)
     ELSE IF jobsRes.status # "ok" THEN Done(Rethrown, <<stmt>>, jobsRes.db)
     ELSE Done(Ok(JobRows(jobsRes.rows)), <<stmt>>, jobsRes.db)

\* the duplicateCheck query of Company.create
DuplicateCheckStmt(data) ==
  Stmt("SELECT", "companies", "", <<>>, <<Pred("handle", "=", 1)>>,
       <<GetProp(data, "handle")>>)

CompanyInsertStmt(data) ==
  Stmt("INSERT", "companies", "",
       <<Assign("handle", 1), Assign("name", 2), Assign("description", 3),
         Assign("num_employees", 4), Assign("logo_url", 5)>>,
       <<>>,
       <<GetProp(data, "handle"), GetProp(data, "name"), GetProp(data, "description"),
         GetProp(data, "numEmployees"), GetProp(data, "logoUrl")>>)

NeverDuplicate(row) == FALSE

\* if (duplicateCheck.rows[0])
IsDuplicate(row) == row # Undefined

\* Company.create up to its first await: the duplicate check.  A value of
\* "pending" says the method goes on to the insert.
CompanyCreateCheck(db, data) ==
  LET stmt == DuplicateCheckStmt(data)
      duplicateCheck == Query(db, stmt)
  IN IF duplicateCheck.status # "ok" THEN Done(Rethrown, <<stmt>>, duplicateCheck.db)
     ELSE IF IsDuplicate(First(duplicateCheck.rows))
     THEN Done(Threw("BadRequestError",
                     "Duplicate company: " \o KeyText(GetProp(data, "handle"))),
               <<stmt>>, duplicateCheck.db)
     ELSE Done([status |-> "pending", msg |-> "", value |-> Null], <<stmt>>,
               duplicateCheck.db)

\* Company.create from its second query on: the insert
CompanyCreateInsert(db, data) ==
  LET stmt == CompanyInsertStmt(data)
      result == Query(db, stmt)
  IN IF result.status # "ok"
     THEN Done(Rethrown, <<DuplicateCheckStmt(data), stmt>>, result.db)
     ELSE Done(Ok(First(CompanyRows(result.rows))),
               <<DuplicateCheckStmt(data), stmt>>, result.db)

CompanyFilters(filters) ==
  StringFilter(
    IntegerFilter(
      IntegerFilter(NoFilters, FilterValue(filters, "minEmployees"),
                    "num_employees", ">=", "minEmployees must be an integer"),
      FilterValue(filters, "maxEmployees"), "num_employees", "<=",
      "maxEmployees must be an integer"),
    FilterValue(filters, "nameLike"), "name", "nameLike must be a string")

\* the characters of the model's names, in code point order
CodePoints == " %./0123456789:ABCDEFGHIJKLMNOPQRSTUVWXYZ_abcdefghijklmnopqrstuvwxyz"

CodePoint(ch) == CHOOSE i \in 1..Len(CodePoints) : SubSeq(CodePoints, i, i) = ch

RECURSIVE StringLess(_, _)
StringLess(a, b) ==
  IF Len(b) = 0 THEN FALSE
  ELSE IF Len(a) = 0 THEN TRUE
  ELSE IF SubSeq(a, 1, 1) = SubSeq(b, 1, 1)
       THEN StringLess(SubSeq(a, 2, Len(a)), SubSeq(b, 2, Len(b)))
       ELSE CodePoint(SubSeq(a, 1, 1)) < CodePoint(SubSeq(b, 1, 1))

\* ORDER BY name: a stable sort of the rows on name
RECURSIVE OrderByName(_)
OrderByName(rows) ==
  IF Len(rows) <= 1 THEN rows
  ELSE LET rest == OrderByName(Tail(rows))
           before == SelectSeq(rest, LAMBDA r : StringLess(r.name.v, Head(rows).name.v))
           after == SelectSeq(rest, LAMBDA r : ~StringLess(r.name.v, Head(rows).name.v))
       IN before \o <<Head(rows)>> \o after

CompanyFindAll(db, filters) ==
  LET b == CompanyFilters(filters)
      stmt == Stmt("SELECT", "companies", "ORDER BY name", <<>>, b.conds, b.values)
      companiesRes == Query(db, stmt)
  IN IF b.thrown # "" THEN Done(Threw("BadRequestError", b.thrown), <<>>, db)
     ELSE IF companiesRes.status # "ok" THEN Done(Rethrown, <<stmt>>, companiesRes.db)
     ELSE Done(Ok(CompanyRows(OrderByName(companiesRes.rows))), <<stmt>>,
               companiesRes.db)

CompanyJobsAll(db, c) ==
  [i \in 1..Len(db.jobs) |->
     [id |-> db.jobs[i].id, title |-> db.jobs[i].title, salary |-> db.jobs[i].salary,
      equity |-> ToJson("equity", db.jobs[i].equity),
      companyHandle |-> db.jobs[i].company_handle]]

\* json_agg(json_build_object('id', j.id, ...)) FILTER (WHERE j.id IS NOT NULL),
\* or '[]': the jobs the LEFT JOIN pairs with the company
CompanyJobs(db, c) ==
  LET js == SelectSeq(db.jobs, LAMBDA j : j.company_handle = c.handle)
  IN [i \in 1..Len(js) |->
        [id |-> js[i].id, title |-> js[i].title, salary |-> js[i].salary,
         equity |-> ToJson("equity", js[i].equity),
         companyHandle |-> js[i].company_handle]]

CompanyGet(db, handle) ==
  LET stmt == Stmt("SELECT", "companies", "LEFT JOIN jobs", <<>>,
                   <<Pred("handle", "=", 1)>>, <<handle>>)
      companyRes == Query(db, stmt)
  IN IF companyRes.status # "ok" THEN Done(Rethrown, <<stmt>>, companyRes.db)
     ELSE LET company == First([i \in 1..Len(companyRes.rows) |->
                            LET c == companyRes.rows[i]
                            IN [handle |-> c.handle, name |-> c.name,
                                description |-> c.description,
                                numEmployees |-> c.num_employees,
                                logoUrl |-> c.logo_url, jobs |-> CompanyJobs(db, c)]])
          IN IF Missing(company)
             THEN Done(Threw("NotFoundError", "No company: " \o KeyText(handle)),
                       <<stmt>>, companyRes.db)
             ELSE Done(Ok(company), <<stmt>>, companyRes.db)

CompanyJsToSql ==
  <<[k |-> "numEmployees", v |-> Str("num_employees")],
    [k |-> "logoUrl", v |-> Str("logo_url")]>>

CompanyUpdate(db, handle, data) ==
  LET built == sqlForPartialUpdate(data, CompanyJsToSql)
  IN IF built.status # "ok" THEN Done(built, <<>>, db)
     ELSE LET stmt == Stmt("UPDATE", "companies", "", built.value.setCols,
                           <<Pred("handle", "=", KeyIdx(built.value.values))>>,
                           WithKey(built.value.values, handle))
              result == Query(db, stmt)
          IN IF result.status # "ok" THEN Done(Rethrown, <<stmt>>, result.db)
             ELSE LET company == First(CompanyRows(result.rows))
                  IN IF Missing(company)
                     THEN Done(Threw("NotFoundError",
                                     "No company: " \o KeyText(handle)),
                               <<stmt>>, result.db)
                     ELSE Done(Ok(company), <<stmt>>, result.db)

CompanyRemove(db, handle) ==
  LET stmt == Stmt("DELETE", "companies", "", <<>>, <<Pred("handle", "=", 1)>>,
                   <<handle>>)
      result == Query(db, stmt)
  IN IF result.status # "ok" THEN Done(Rethrown, <<stmt>>, result.db)
     ELSE IF Missing(First(result.rows))
     THEN Done(Threw("NotFoundError", "No company: " \o KeyText(handle)),
               <<stmt>>, result.db)
     ELSE Done(Ok(Undefined), <<stmt>>, result.db)

(***************************************************************************)
(* The routes that call update: PATCH /jobs/:id and PATCH /companies/:handle*)
(* validate the body against the update schema before they call the model. *)
(***************************************************************************)
JobUpdateSchema == {"title", "salary", "equity"}
CompanyUpdateSchema == {"name", "description", "numEmployees", "logoUrl"}

AnyBody(data, schema) == TRUE

\* additionalProperties: false
Validates(data, schema) == \A i \in 1..Len(data) : data[i].k \in schema

(***************************************************************************)
(* The inputs of the model.                                                *)
(***************************************************************************)
Handles == {Str("c1"), Str("c2")}
JobIds == {Num(i) : i \in 1..MaxJobId}

NewCompany(handle) ==
  <<[k |-> "handle", v |-> handle],
    [k |-> "name", v |-> Str(IF handle = Str("c1") THEN "C1" ELSE "C2")],
    [k |-> "description", v |-> Str("Desc")],
    [k |-> "numEmployees", v |-> Num(1)],
    [k |-> "logoUrl", v |-> Str("http://c.img")]>>

NewJob(handle) ==
  <<[k |-> "title", v |-> Str("j1")], [k |-> "salary", v |-> Num(100000)],
    [k |-> "equity", v |-> Frac(1, 10)], [k |-> "companyHandle", v |-> handle]>>

\* the value a body gives a field
PatchValue(key) ==
  CASE key = "title" -> Str("new")
    [] key = "name" -> Str("c2")
    [] key = "salary" -> Null
    [] key = "equity" -> Frac(5, 10)
    [] key = "id" -> Num(1729)
    [] key \in {"companyHandle", "handle"} -> Str("c2")
    [] key = "numEmployees" -> Num(2)
    [] key = "description" -> Str("New desc")
    [] key = "logoUrl" -> Null
    [] OTHER -> Num(32)

\* the objects with at most n of the keys, in every insertion order
Objects(keys, n) ==
  {[i \in 1..m |-> [k |-> s[i], v |-> PatchValue(s[i])]] :
     <<m, s>> \in {ms \in UNION {{<<l, f>> : f \in [1..l -> keys]} : l \in 0..n} :
                    \A i, j \in 1..ms[1] : i # j => ms[2][i] # ms[2][j]}}

\* the mappings sqlForPartialUpdate is applied to, and the alias mappings
BuilderInputs ==
  Objects({"title", "salary", "numEmployees", "logoUrl", "firstName", "constructor"},
          MaxDataKeys)
AliasMappings == {JobJsToSql, CompanyJsToSql, <<>>}

Absent == [t |-> "absent", v |-> "absent"]

FilterValues ==
  {Str("J"), Str(""), Str("0"), Num(0), Num(200000), Frac(15, 10), Bool(TRUE),
   Bool(FALSE), Null, EmptyArray}

\* the criteria objects over three keys: each key absent, or with a value
Criteria(keys) ==
  {SelectSeq([i \in 1..3 |-> [k |-> keys[i], v |-> f[i]]], LAMBDA e : e.v # Absent) :
     f \in [1..3 -> FilterValues \cup {Absent}]}

JobCriteria == Criteria(<<"title", "minSalary", "hasEquity">>)
CompanyCriteria == Criteria(<<"minEmployees", "maxEmployees", "nameLike">>)

\* criteria with a key findAll does not read, alone and next to a filter
UnreadCriteria(key, value) ==
  {<<[k |-> "color", v |-> Str("J")]>>,
   <<[k |-> "color", v |-> Num(200000)], [k |-> key, v |-> value]>>}

JobBodies == Objects({"title", "salary", "id", "companyHandle"}, MaxDataKeys)
CompanyBodies == Objects({"name", "numEmployees", "handle"}, MaxDataKeys)

(***************************************************************************)
(* The state machine.  call, out and sent describe a call that has returned*)
(* or thrown until its route has sent the response; the event loop runs no *)
(* other handler between the two, so a handler starts only when no         *)
(* completed call is waiting for its response.                             *)
(***************************************************************************)
DB == [companies |-> companies, jobs |-> jobs, jobsIdSeq |-> jobsIdSeq]

Call(op, key, data) == [op |-> op, key |-> key, data |-> data]

NoCall == Call("none", Null, <<>>)

Returns(r, c) ==
  /\ call.op = "none"
  /\ companies' = r.db.companies
  /\ jobs' = r.db.jobs
  /\ jobsIdSeq' = r.db.jobsIdSeq
  /\ out' = r.out
  /\ sent' = r.sent
  /\ call' = c

Init ==
  /\ companies = <<>>
  /\ jobs = <<>>
  /\ jobsIdSeq = 0
  /\ pc = [p \in Requests |-> "idle"]
  /\ req = [p \in Requests |-> <<>>]
  /\ call = NoCall
  /\ out = Ok(Undefined)
  /\ sent = <<>>

\* the route sends the response of the completed call
Respond ==
  /\ call.op # "none"
  /\ call' = NoCall
  /\ out' = Ok(Undefined)
  /\ sent' = <<>>
  /\ UNCHANGED <<companies, jobs, jobsIdSeq, pc, req>>

\* Company.create(data) runs to its first await, the duplicate check, and
\* either throws or is suspended before the insert
CompanyCreateBegin(p, handle) ==
  /\ pc[p] = "idle"
  /\ LET data == NewCompany(handle)
         r == CompanyCreateCheck(DB, data)
     IN IF r.out.status = "pending"
        THEN /\ call.op = "none"
             /\ pc' = [pc EXCEPT ![p] = "insert"]
             /\ req' = [req EXCEPT ![p] = data]
             /\ UNCHANGED <<companies, jobs, jobsIdSeq, call, out, sent>>
        ELSE /\ Returns(r, Call("Company.create", handle, data))
             /\ UNCHANGED <<pc, req>>

\* Company.create(data) resumes after the duplicate check and inserts
CompanyCreateEnd(p) ==
  /\ pc[p] = "insert"
  /\ Returns(CompanyCreateInsert(DB, req[p]),
             Call("Company.create", GetProp(req[p], "handle"), req[p]))
  /\ pc' = [pc EXCEPT ![p] = "idle"]
  /\ req' = [req EXCEPT ![p] = <<>>]

CompanyGetCall(handle) ==
  /\ Returns(CompanyGet(DB, handle), Call("Company.get", handle, <<>>))
  /\ UNCHANGED <<pc, req>>

\* PATCH /companies/:handle
CompaniesPatch(handle, data) ==
  /\ IF Validates(data, CompanyUpdateSchema)
     THEN Returns(CompanyUpdate(DB, handle, data), Call("Company.update", handle, data))
     ELSE Returns(Done(Threw("BadRequestError", "schema"), <<>>, DB),
                  Call("PATCH /companies/:handle", handle, data))
  /\ UNCHANGED <<pc, req>>

CompanyRemoveCall(handle) ==
  /\ Returns(CompanyRemove(DB, handle), Call("Company.remove", handle, <<>>))
  /\ UNCHANGED <<pc, req>>

JobCreateCall(handle) ==
  /\ jobsIdSeq < MaxJobId
  /\ Returns(JobCreate(DB, NewJob(handle)), Call("Job.create", Null, NewJob(handle)))
  /\ UNCHANGED <<pc, req>>

JobGetCall(id) ==
  /\ Returns(JobGet(DB, id), Call("Job.get", id, <<>>))
  /\ UNCHANGED <<pc, req>>

\* PATCH /jobs/:id
JobsPatch(id, data) ==
  /\ IF Validates(data, JobUpdateSchema)
     THEN Returns(JobUpdate(DB, id, data), Call("Job.update", id, data))
     ELSE Returns(Done(Threw("BadRequestError", "schema"), <<>>, DB),
                  Call("PATCH /jobs/:id", id, data))
  /\ UNCHANGED <<pc, req>>

JobRemoveCall(id) ==
  /\ Returns(JobRemove(DB, id), Call("Job.remove", id, <<>>))
  /\ UNCHANGED <<pc, req>>

Next ==
  \/ Respond
  \/ \E p \in Requests, h \in Handles : CompanyCreateBegin(p, h)
  \/ \E p \in Requests : CompanyCreateEnd(p)
  \/ \E h \in Handles : CompanyGetCall(h)
  \/ \E h \in Handles, data \in CompanyBodies : CompaniesPatch(h, data)
  \/ \E h \in Handles : CompanyRemoveCall(h)
  \/ \E h \in Handles : JobCreateCall(h)
  \/ \E id \in JobIds : JobGetCall(id)
  \/ \E id \in JobIds, data \in JobBodies : JobsPatch(id, data)
  \/ \E id \in JobIds : JobRemoveCall(id)

Spec == Init /\ [][Next]_vars

(***************************************************************************)
(* findAll on a store that holds two companies and two jobs.               *)
(***************************************************************************)
EmptyDB == [companies |-> <<>>, jobs |-> <<>>, jobsIdSeq |-> 0]

\* the store after create c1, c2, j1 for c1, j2 for c2, and an update of each of
\* j2 and c2
SeededByCalls ==
  LET d1 == CompanyCreateInsert(EmptyDB, NewCompany(Str("c1"))).db
      d2 == CompanyCreateInsert(d1, NewCompany(Str("c2"))).db
      d3 == JobCreate(d2, NewJob(Str("c1"))).db
      d4 == JobCreate(d3, NewJob(Str("c2"))).db
      d5 == JobUpdate(d4, Num(2), <<[k |-> "title", v |-> Str("J2")],
                                    [k |-> "salary", v |-> Num(200000)],
                                    [k |-> "equity", v |-> Null]>>).db
  IN CompanyUpdate(d5, Str("c2"), <<[k |-> "numEmployees", v |-> Num(200000)]>>).db

\* that store, row by row
Seeded ==
  [companies |->
     <<[handle |-> Str("c1"), name |-> Str("C1"), description |-> Str("Desc"),
        num_employees |-> Num(1), logo_url |-> Str("http://c.img")],
       [handle |-> Str("c2"), name |-> Str("C2"), description |-> Str("Desc"),
        num_employees |-> Num(200000), logo_url |-> Str("http://c.img")]>>,
   jobs |->
     <<[id |-> Num(1), title |-> Str("j1"), salary |-> Num(100000),
        equity |-> Frac(1, 10), company_handle |-> Str("c1")],
       [id |-> Num(2), title |-> Str("J2"), salary |-> Num(200000),
        equity |-> Null, company_handle |-> Str("c2")]>>,
   jobsIdSeq |-> 2]

FindAllInit ==
  /\ companies = Seeded.companies
  /\ jobs = Seeded.jobs
  /\ jobsIdSeq = Seeded.jobsIdSeq
  /\ pc = [p \in Requests |-> "idle"]
  /\ req = [p \in Requests |-> <<>>]
  /\ call = NoCall
  /\ out = Ok(Undefined)
  /\ sent = <<>>

JobFindAllCall(filters) ==
  /\ Returns(JobFindAll(DB, filters), Call("Job.findAll", Null, filters))
  /\ UNCHANGED <<pc, req>>

CompanyFindAllCall(filters) ==
  /\ Returns(CompanyFindAll(DB, filters), Call("Company.findAll", Null, filters))
  /\ UNCHANGED <<pc, req>>

FindAllNext ==
  \/ Respond
  \/ \E filters \in JobCriteria \cup UnreadCriteria("minSalary", Num(200000)) :
       JobFindAllCall(filters)
  \/ \E filters \in CompanyCriteria \cup UnreadCriteria("nameLike", Str("c")) :
       CompanyFindAllCall(filters)

FindAllSpec == FindAllInit /\ [][FindAllNext]_vars

(***************************************************************************)
(* sqlForPartialUpdate applied to every input of the model.                *)
(***************************************************************************)
BuilderCall(dataToUpdate, jsToSql) ==
  /\ call.op = "none"
  /\ call' = Call("sqlForPartialUpdate", jsToSql, dataToUpdate)
  /\ out' = sqlForPartialUpdate(dataToUpdate, jsToSql)
  /\ sent' = <<>>
  /\ UNCHANGED <<companies, jobs, jobsIdSeq, pc, req>>

BuilderNext ==
  \/ Respond
  \/ \E dataToUpdate \in BuilderInputs, jsToSql \in AliasMappings :
       BuilderCall(dataToUpdate, jsToSql)

BuilderSpec == Init /\ [][BuilderNext]_vars

(***************************************************************************)
(* The Job methods, with Company.get and Company.remove, on the store that *)
(* holds two companies and a job of each; Job.create adds MaxJobId more.   *)
(***************************************************************************)
\* the seeded store holds the jobs 1 and 2
SeededJobIds == {Num(i) : i \in 1..(2 + MaxJobId)}

\* the bodies the update schema accepts
JobUpdateBodies == {data \in JobBodies : Validates(data, JobUpdateSchema)}

JobCreateMore(handle) ==
  /\ jobsIdSeq < 2 + MaxJobId
  /\ Returns(JobCreate(DB, NewJob(handle)), Call("Job.create", Null, NewJob(handle)))
  /\ UNCHANGED <<pc, req>>

JobsNext ==
  \/ Respond
  \/ \E h \in Handles : JobCreateMore(h)
  \/ \E id \in SeededJobIds : JobGetCall(id)
  \/ \E id \in SeededJobIds, data \in JobUpdateBodies : JobsPatch(id, data)
  \/ \E id \in SeededJobIds : JobRemoveCall(id)
  \/ \E h \in Handles : CompanyGetCall(h)
  \/ \E h \in Handles : CompanyRemoveCall(h)

JobsSpec == FindAllInit /\ [][JobsNext]_vars

(***************************************************************************)
(* Properties.                                                             *)
(***************************************************************************)
StoredCompany(rows, handle) == \E i \in 1..Len(rows) : rows[i].handle = handle
StoredJob(rows, id) == \E i \in 1..Len(rows) : rows[i].id = id

\* the key of the call is stored in the table the call is about
StoredKey(c) ==
  IF c.op \in {"Job.get", "Job.update", "Job.remove", "PATCH /jobs/:id"}
  THEN StoredJob(jobs, c.key)
  ELSE StoredCompany(companies, c.key)

StoreUnchanged == UNCHANGED <<companies, jobs, jobsIdSeq>>

\* this step is a call of op returning or throwing
Completes(ops) == call.op = "none" /\ call'.op \in ops

UpdateOps == {"Job.update", "Company.update"}
PatchOps == UpdateOps \cup {"PATCH /jobs/:id", "PATCH /companies/:handle"}

\* C1: no two stored companies have the same handle, whatever the
\* interleaving of the Company.create, update and remove calls.
C1_UniqueHandles ==
  \A i, j \in 1..Len(companies) :
    i # j => companies[i].handle # companies[j].handle

\* a Company.create has lost the race for its handle while two companies are stored
C1_Witness ==
  /\ call.op = "Company.create"
  /\ out.status = "StoreError"
  /\ Len(companies) = 2

\* this step is Company.create(handle) running its duplicate check: it throws
\* there, or is suspended before its insert
CreateChecks(handle) ==
  \/ Completes({"Company.create"}) /\ call'.key = handle /\ pc' = pc
  \/ \E p \in Requests :
       pc[p] = "idle" /\ pc'[p] = "insert" /\ GetProp(req'[p], "handle") = handle

\* C2: Company.create with a handle that is stored throws BadRequestError,
\* sends no INSERT, and leaves every row as it was.
C2_DuplicateRejected ==
  [][\A h \in Handles :
       StoredCompany(companies, h) /\ CreateChecks(h) =>
         /\ out'.status = "BadRequestError"
         /\ \A i \in 1..Len(sent') : sent'[i].verb # "INSERT"
         /\ pc' = pc
         /\ StoreUnchanged]_vars

\* a duplicate Company.create has thrown while another company and a job are stored
C2_Witness ==
  /\ call.op = "Company.create"
  /\ out.status = "BadRequestError"
  /\ StoredCompany(companies, call.key)
  /\ Len(companies) = 2
  /\ Len(jobs) = 1

\* C3: update with a non-empty valid mapping on a key that is not stored
\* throws NotFoundError, for Job and for Company, and changes no row.
C3_UpdateNotFound ==
  [][Completes(UpdateOps) /\ Len(call'.data) > 0 /\ ~StoredKey(call') =>
       /\ out'.status = "NotFoundError"
       /\ StoreUnchanged]_vars

\* a two-field Job.update of an id that is not stored has thrown NotFoundError
\* while a company is stored
C3_Witness ==
  /\ call.op = "Job.update"
  /\ Len(call.data) = 2
  /\ ~StoredJob(jobs, call.key)
  /\ out.status = "NotFoundError"
  /\ Len(companies) > 0

\* the record get returns is the stored row with the key
GetReturns(c, o) ==
  IF c.op = "Job.get"
  THEN \E i \in 1..Len(jobs) :
         /\ jobs[i].id = c.key
         /\ o.value.id = c.key
         /\ o.value.title = jobs[i].title
         /\ o.value.salary = jobs[i].salary
         /\ o.value.equity = FromSql("equity", jobs[i].equity)
         /\ o.value.company.handle = jobs[i].company_handle
  ELSE \E i \in 1..Len(companies) :
         /\ companies[i].handle = c.key
         /\ o.value.handle = c.key
         /\ o.value.name = companies[i].name
         /\ o.value.description = companies[i].description
         /\ o.value.numEmployees = companies[i].num_employees
         /\ o.value.logoUrl = companies[i].logo_url

\* C4: get of a key that is not stored throws NotFoundError and returns no
\* record; get of a stored key returns that record; the store is unchanged.
C4_Get ==
  [][Completes({"Job.get", "Company.get"}) =>
       /\ StoreUnchanged
       /\ IF StoredKey(call')
          THEN out'.status = "ok" /\ GetReturns(call', out')
          ELSE out'.status = "NotFoundError" /\ out'.value = Null]_vars

\* Job.get has thrown NotFoundError for an id the serial has handed out and no
\* stored job holds
C4_Witness ==
  /\ call.op = "Job.get"
  /\ out.status = "NotFoundError"
  /\ jobsIdSeq = 1
  /\ call.key = Num(1)
  /\ Len(companies) = 2

\* the column a field of an update mapping is stored in
FieldColumn(field) ==
  CASE field = "numEmployees" -> "num_employees"
    [] field = "logoUrl" -> "logo_url"
    [] OTHER -> field

\* the row after an update with data: the named fields hold data's values
Patched(row, data) ==
  [c \in DOMAIN row |->
     IF \E k \in 1..Len(data) : FieldColumn(data[k].k) = c
     THEN data[CHOOSE k \in 1..Len(data) : FieldColumn(data[k].k) = c].v
     ELSE row[c]]

\* rows2 is rows with exactly the row of the key patched
OnlyKeyPatched(rows, rows2, keyCol, key, data) ==
  /\ Len(rows2) = Len(rows)
  /\ Cardinality({i \in 1..Len(rows) : rows[i][keyCol] = key}) = 1
  /\ \A i \in 1..Len(rows) :
       rows2[i] = IF rows[i][keyCol] = key THEN Patched(rows[i], data) ELSE rows[i]

\* C5: a successful update changes exactly the fields named in data on the one
\* row with the key; its other fields and every other row keep their values.
C5_UpdateFrame ==
  [][Completes(UpdateOps) /\ out'.status = "ok" =>
       /\ jobsIdSeq' = jobsIdSeq
       /\ IF call'.op = "Job.update"
          THEN /\ companies' = companies
               /\ OnlyKeyPatched(jobs, jobs', "id", call'.key, call'.data)
          ELSE /\ jobs' = jobs
               /\ OnlyKeyPatched(companies, companies', "handle", call'.key,
                                 call'.data)]_vars

\* a two-field Company.update has succeeded while the other company is stored
C5_Witness ==
  /\ call.op = "Company.update"
  /\ out.status = "ok"
  /\ Len(call.data) = 2
  /\ Len(companies) = 2
  /\ Len(jobs) = 1

IdentityFields(op) ==
  IF op \in {"Job.update", "PATCH /jobs/:id"} THEN {"id", "companyHandle"}
  ELSE {"handle"}

NamesIdentity(c) == \E k \in 1..Len(c.data) : c.data[k].k \in IdentityFields(c.op)

\* the identity columns of every stored row, in table order
Identities ==
  <<[i \in 1..Len(jobs) |-> <<jobs[i].id, jobs[i].company_handle>>],
    [i \in 1..Len(companies) |-> companies[i].handle]>>

\* C6: an update whose data names Job id, Job companyHandle or Company handle
\* is rejected with BadRequestError, and no update changes an id, a
\* companyHandle or a handle.
C6_IdentityKept ==
  [][Completes(PatchOps) =>
       /\ Identities' = Identities
       /\ NamesIdentity(call') => out'.status = "BadRequestError" /\ StoreUnchanged]_vars

\* a PATCH naming the id of a stored job has been rejected
C6_Witness ==
  /\ call.op = "PATCH /jobs/:id"
  /\ NamesIdentity(call)
  /\ StoredJob(jobs, call.key)
  /\ out.status = "BadRequestError"

\* C8: sqlForPartialUpdate throws BadRequestError on the empty mapping, so
\* update(key, {}) throws BadRequestError for a stored and for an absent key,
\* sends no statement and changes no row.
C8_NoData ==
  [][Completes(UpdateOps) /\ call'.data = <<>> =>
       /\ sqlForPartialUpdate(call'.data, JobJsToSql).status = "BadRequestError"
       /\ sqlForPartialUpdate(call'.data, CompanyJsToSql).status = "BadRequestError"
       /\ out'.status = "BadRequestError"
       /\ sent' = <<>>
       /\ StoreUnchanged]_vars

\* Job.update(id, {}) of a stored job has thrown BadRequestError
C8_Witness ==
  /\ call.op = "Job.update"
  /\ call.data = <<>>
  /\ StoredJob(jobs, call.key)
  /\ out.status = "BadRequestError"
  /\ sent = <<>>

\* the alias the mapping jsToSql itself gives a key, or the key
OwnAlias(jsToSql, key) == IF HasOwn(jsToSql, key) THEN OwnValue(jsToSql, key).v ELSE key

\* the builder's result for data is one fragment "<column>"=$k and one value per key
Aligned(data, jsToSql, o) ==
  /\ o.status = "ok"
  /\ Len(o.value.setCols) = Len(data)
  /\ Len(o.value.values) = Len(data)
  /\ \A k \in 1..Len(data) :
       /\ o.value.setCols[k] = Assign(OwnAlias(jsToSql, data[k].k), k)
       /\ o.value.values[k] = data[k].v

\* C7: for a non-empty mapping with N keys sqlForPartialUpdate returns N
\* fragments and N values; the k-th fragment is "<column>"=$k for the alias of
\* the k-th key, or the key itself when it has no alias, and the k-th value is
\* the k-th key's value.
C7_Fragments ==
  call.op = "sqlForPartialUpdate" /\ Len(call.data) > 0 =>
    Aligned(call.data, call.key, out)

\* the same, for the mappings none of whose keys without an alias is the name
\* of a property inherited from Object.prototype
C7_FragmentsOfPlainKeys ==
  /\ call.op = "sqlForPartialUpdate"
  /\ Len(call.data) > 0
  /\ \A k \in 1..Len(call.data) :
       HasOwn(call.key, call.data[k].k) \/ call.data[k].k \notin ObjectPrototype
  => Aligned(call.data, call.key, out)

FindAllOps == {"Job.findAll", "Company.findAll"}

\* the type check of a recognized filter key
TypeChecks(field, x) ==
  CASE field \in {"title", "nameLike"} -> IsString(x)
    [] field \in {"minSalary", "minEmployees", "maxEmployees"} -> NumberIsInteger(x)
    [] field = "hasEquity" -> x = Bool(TRUE)
    [] OTHER -> TRUE

\* the filter keys present with a value that fails its type check
Offending(filters) ==
  {filters[i].k : i \in {j \in 1..Len(filters) : ~TypeChecks(filters[j].k, filters[j].v)}}

\* the message starts with the name of the field
Names(msg, field) ==
  Len(msg) > Len(field) /\ SubSeq(msg, 1, Len(field) + 1) = field \o " "

Rejected(filters) ==
  /\ out.status = "BadRequestError"
  /\ \E field \in Offending(filters) : Names(out.msg, field)
  /\ sent = <<>>

\* C9: findAll throws BadRequestError naming the field whenever a recognized
\* filter key is present with a value that fails its type check, and sends no
\* query.
C9_BadTypeRejected ==
  call.op \in FindAllOps /\ Offending(call.data) # {} => Rejected(call.data)

\* the same, when some offending value is not loosely equal to false
C9_RejectedUnlessFalsy ==
  /\ call.op \in FindAllOps
  /\ \E i \in 1..Len(call.data) :
       /\ ~TypeChecks(call.data[i].k, call.data[i].v)
       /\ ~LooseEqFalse(call.data[i].v)
  => Rejected(call.data)

\* the filters of the criteria: the entries whose key findAll reads
RecognizedKeys(op) ==
  IF op = "Job.findAll" THEN {"title", "minSalary", "hasEquity"}
  ELSE {"minEmployees", "maxEmployees", "nameLike"}

Supplied(c) == SelectSeq(c.data, LAMBDA e : e.k \in RecognizedKeys(c.op))

\* the predicate and the parameter a validly typed Job filter contributes
JobPredicate(e) ==
  CASE e.k = "title" -> [col |-> "title", op |-> "ILIKE", params |-> <<Str("%" \o e.v.v \o "%")>>]
    [] e.k = "minSalary" -> [col |-> "salary", op |-> ">=", params |-> <<e.v>>]
    [] e.k = "hasEquity" -> [col |-> "equity", op |-> ">", params |-> <<>>]

RECURSIVE Flat(_)
Flat(ss) == IF Len(ss) = 0 THEN <<>> ELSE Head(ss) \o Flat(Tail(ss))

\* the placeholders of the predicates, in order of appearance
PlaceholdersInOrder(where) ==
  LET with == SelectSeq(where, LAMBDA p : p.idx # 0)
  IN [i \in 1..Len(with) |-> with[i].idx]

\* C10: for validly typed Job filters findAll sends one query whose WHERE
\* clause holds one predicate per supplied filter, in the order title,
\* minSalary, hasEquity, and whose parameters are one value per parameterized
\* predicate; the placeholders are $1..$n in order of appearance, n the number
\* of parameters; hasEquity gives a predicate and no parameter.
C10_WhereClause ==
  call.op = "Job.findAll" /\ Offending(call.data) = {} =>
    /\ out.status = "ok"
    /\ Len(sent) = 1
    /\ LET where == sent[1].where
           params == sent[1].params
           filters == Supplied(call)
       IN /\ Len(where) = Len(filters)
          /\ \A i \in 1..Len(where) :
               /\ where[i].col = JobPredicate(filters[i]).col
               /\ where[i].op = JobPredicate(filters[i]).op
               /\ (where[i].idx = 0) = (filters[i].k = "hasEquity")
          /\ params = Flat([i \in 1..Len(filters) |-> JobPredicate(filters[i]).params])
          /\ PlaceholdersInOrder(where) = [i \in 1..Len(params) |-> i]

\* findAll has answered {minSalary: 200000, hasEquity: true} with two
\* predicates and the parameters [200000]
C10_Witness ==
  /\ call.op = "Job.findAll"
  /\ call.data = <<[k |-> "minSalary", v |-> Num(200000)],
                   [k |-> "hasEquity", v |-> Bool(TRUE)]>>
  /\ out.status = "ok"
  /\ sent[1].where = <<Pred("salary", ">=", 1), PredLit("equity", ">", Num(0))>>
  /\ sent[1].params = <<Num(200000)>>

\* the string in lower case
RECURSIVE Lower(_)
Lower(s) ==
  IF Len(s) = 0 THEN ""
  ELSE LET ch == SubSeq(s, 1, 1)
           up == {i \in 1..Len(UpperCase) : SubSeq(UpperCase, i, i) = ch}
       IN (IF up = {} THEN ch ELSE LET i == CHOOSE j \in up : TRUE
                                   IN SubSeq(LowerCase, i, i))
            \o Lower(SubSeq(s, 2, Len(s)))

\* part occurs in s, case-insensitively
ContainsIgnoringCase(s, part) ==
  \/ Len(part) = 0
  \/ \E i \in 1..(Len(s) - Len(part) + 1) :
       Lower(SubSeq(s, i, i + Len(part) - 1)) = Lower(part)

\* number a is at least number b
AtLeast(a, b) == a.v[1] * b.v[2] >= b.v[1] * a.v[2]

\* the stored row satisfies the filter
Satisfies(row, e) ==
  CASE e.k = "title" -> ContainsIgnoringCase(row.title.v, e.v.v)
    [] e.k = "nameLike" -> ContainsIgnoringCase(row.name.v, e.v.v)
    [] e.k = "minSalary" -> row.salary # Null /\ AtLeast(row.salary, e.v)
    [] e.k = "minEmployees" -> row.num_employees # Null /\ AtLeast(row.num_employees, e.v)
    [] e.k = "maxEmployees" -> row.num_employees # Null /\ AtLeast(e.v, row.num_employees)
    [] e.k = "hasEquity" -> row.equity # Null /\ row.equity.v[1] > 0

\* the returned records are exactly the records of the rows of the table that
\* satisfy every filter, each once
ReturnsMatching(rows, filters, records, value) ==
  LET hits == {i \in 1..Len(rows) :
                 \A k \in 1..Len(filters) : Satisfies(rows[i], filters[k])}
  IN /\ Len(value) = Cardinality(hits)
     /\ {value[i] : i \in 1..Len(value)} = {records[i] : i \in hits}

RemoveOps == {"Job.remove", "Company.remove"}

\* on the store db, get, update with every non-empty body the schema accepts,
\* and remove of the key of c all throw NotFoundError
AllNotFound(db, c) ==
  IF c.op = "Job.remove"
  THEN /\ JobGet(db, c.key).out.status = "NotFoundError"
       /\ \A data \in JobUpdateBodies \ {<<>>} :
            JobUpdate(db, c.key, data).out.status = "NotFoundError"
       /\ JobRemove(db, c.key).out.status = "NotFoundError"
  ELSE /\ CompanyGet(db, c.key).out.status = "NotFoundError"
       /\ \A data \in {d \in CompanyBodies : Validates(d, CompanyUpdateSchema)} \ {<<>>} :
            CompanyUpdate(db, c.key, data).out.status = "NotFoundError"
       /\ CompanyRemove(db, c.key).out.status = "NotFoundError"

\* C12: remove of a stored key deletes exactly that row and leaves the other
\* rows of its table unchanged, after which get, update and remove of the key
\* throw NotFoundError; remove of a key that is not stored throws NotFoundError
\* and leaves the store unchanged.
C12_Remove ==
  [][Completes(RemoveOps) =>
       IF StoredKey(call')
       THEN /\ out'.status = "ok"
            /\ jobsIdSeq' = jobsIdSeq
            /\ IF call'.op = "Job.remove"
               THEN /\ jobs' = SelectSeq(jobs, LAMBDA j : j.id # call'.key)
                    /\ Len(jobs') = Len(jobs) - 1
                    /\ companies' = companies
               ELSE /\ companies' = SelectSeq(companies, LAMBDA c : c.handle # call'.key)
                    /\ Len(companies') = Len(companies) - 1
            /\ AllNotFound([companies |-> companies', jobs |-> jobs',
                            jobsIdSeq |-> jobsIdSeq'], call')
       ELSE /\ out'.status = "NotFoundError"
            /\ StoreUnchanged]_vars

\* Job.remove has deleted one job of three and left the other two
C12_Witness ==
  /\ call.op = "Job.remove"
  /\ out.status = "ok"
  /\ jobsIdSeq = 3
  /\ Len(jobs) = 2
  /\ ~StoredJob(jobs, call.key)

\* this step is request p's Company.create running its insert
CreateInserts(p) == pc[p] = "insert" /\ pc'[p] = "idle"

\* C13: Company.create checks for a duplicate and then inserts, without
\* atomicity.  Of two calls with one handle whose checks both ran before either
\* insert, the first insert succeeds and the other call, inserting while the
\* handle is stored, fails with the store's error, which is not the
\* BadRequestError; a call that starts when the handle is stored fails with
\* BadRequestError.
C13_CreateRace ==
  [][/\ \A p \in Requests :
          CreateInserts(p) =>
            LET handle == GetProp(req[p], "handle")
            IN IF StoredCompany(companies, handle)
               THEN /\ out'.status = "StoreError"
                    /\ StoreUnchanged
               ELSE /\ out'.status = "ok"
                    /\ StoredCompany(companies', handle)
                    /\ Len(companies') = Len(companies) + 1
                    /\ \A q \in Requests \ {p} :
                         pc[q] = "insert" /\ GetProp(req[q], "handle") = handle =>
                           pc'[q] = "insert" /\ req'[q] = req[q]
     /\ \A h \in Handles :
          StoredCompany(companies, h) /\ CreateChecks(h) =>
            out'.status = "BadRequestError"]_vars

\* a Company.create that passed its check has failed at its insert with the
\* store's error, the handle being stored once by the call that won
C13_Witness ==
  /\ call.op = "Company.create"
  /\ out.status = "StoreError"
  /\ Len(sent) = 2
  /\ sent[2].verb = "INSERT"
  /\ Cardinality({i \in 1..Len(companies) : companies[i].handle = call.key}) = 1
  /\ \A p \in Requests : pc[p] = "idle"

\* the stored jobs of the company with the handle
JobsOf(handle) == {i \in 1..Len(jobs) : jobs[i].company_handle = handle}

\* the job as it appears in a company's jobs list
ListedJob(j) ==
  [id |-> j.id, title |-> j.title, salary |-> j.salary, equity |-> j.equity,
   companyHandle |-> j.company_handle]

\* the company as it appears in a job
EmbeddedCompany(c) ==
  [handle |-> c.handle, name |-> c.name, description |-> c.description,
   numEmployees |-> c.num_employees, logoUrl |-> c.logo_url]

\* C14: Company.get of a stored company returns a jobs list that holds exactly
\* the stored jobs whose companyHandle is the handle, the empty list when there
\* are none; Job.get of a stored job returns the job with the company of its
\* companyHandle embedded.
C14_Nested ==
  /\ call.op = "Company.get" /\ StoredCompany(companies, call.key) =>
       /\ out.status = "ok"
       /\ Len(out.value.jobs) = Cardinality(JobsOf(call.key))
       /\ {out.value.jobs[i] : i \in 1..Len(out.value.jobs)}
            = {ListedJob(jobs[i]) : i \in JobsOf(call.key)}
  /\ call.op = "Job.get" /\ StoredJob(jobs, call.key) =>
       /\ out.status = "ok"
       /\ out.value.id = call.key
       /\ \E i \in 1..Len(jobs), k \in 1..Len(companies) :
            /\ jobs[i].id = call.key
            /\ out.value.title = jobs[i].title
            /\ out.value.salary = jobs[i].salary
            /\ companies[k].handle = jobs[i].company_handle
            /\ out.value.company = EmbeddedCompany(companies[k])

\* Company.get has returned the two jobs of a company while the other company
\* has a job of its own
C14_Witness ==
  /\ call.op = "Company.get"
  /\ out.status = "ok"
  /\ Len(out.value.jobs) = 2
  /\ Len(jobs) = 3

====
